---- MODULE Spec2Model ----
(***************************************************************************)
(* Model of src/app.py: the upload / ask / clear_session handlers, the     *)
(* global session registry db_session, the DuckDB connections and the      *)
(* files each session owns, and the parsing of the language model's reply. *)
(*                                                                         *)
(* Text on which the code does character work (lower(), the `in` substring *)
(* test, splitext, replace) is a sequence of one-character strings. Text   *)
(* that is only carried around (messages, engine errors) is a TLA+ string. *)
(*                                                                         *)
(* The Flask development server is threaded: two requests may interleave   *)
(* at statement granularity. Each handler is a sequence of steps of one    *)
(* worker thread; pc[w] is the worker's position, req[w] its locals.       *)
(***************************************************************************)
EXTENDS Integers, Sequences, FiniteSets, TLC

(***************************************************************************)
(* Bounds of the model.                                                    *)
(***************************************************************************)
\* upload requests that get as far as creating a temporary file
MaxUploads == 2
\* data rows of an uploaded CSV file
MaxRows == 2
\* requests the server takes in one run
MaxRequests == 4

(***************************************************************************)
(* Character-level text.                                                   *)
(***************************************************************************)
UPPER == <<"A","B","C","D","E","F","G","H","I","J","K","L","M","N","O","P","Q","R","S","T","U","V","W","X","Y","Z">>
LOWER == <<"a","b","c","d","e","f","g","h","i","j","k","l","m","n","o","p","q","r","s","t","u","v","w","x","y","z">>

\* a lower() that leaves the text as it is
LowerChar_unchanged(c) == c

\* str.lower() on one character
LowerChar(c) ==
    IF \E i \in DOMAIN UPPER : UPPER[i] = c
    THEN LOWER[CHOOSE i \in DOMAIN UPPER : UPPER[i] = c]
    ELSE c

\* str.lower()
Lower(s) == [i \in DOMAIN s |-> LowerChar(s[i])]

\* Python's `sub in s` on strings
Contains(sub, s) ==
    \E i \in 0..(Len(s) - Len(sub)) :
        \A j \in 1..Len(sub) : s[i + j] = sub[j]

\* os.path.splitext(name)[1]: the suffix from the last dot, "" without one
SplitExt(name) ==
    LET dots == {i \in DOMAIN name : name[i] = "."}
    IN  IF dots = {} \/ dots = {1} THEN <<>>
        ELSE LET d == CHOOSE i \in dots : \A k \in dots : k <= i
             IN  SubSeq(name, d, Len(name))

EXT_csv == <<".","c","s","v">>
EXT_duckdb == <<".","d","u","c","k","d","b">>

(***************************************************************************)
(* Python values that cross the JSON boundary.                             *)
(***************************************************************************)
PyNone == [t |-> "None"]
PyStr(s) == [t |-> "str", s |-> s]
PyInt(n) == [t |-> "int", n |-> n]
PyList(headers, rows) == [t |-> "list", headers |-> headers, rows |-> rows]

\* bool(v) for the values above
Truthy(v) ==
    CASE v.t = "None" -> FALSE
      [] v.t = "str"  -> v.s # <<>>
      [] v.t = "int"  -> v.n # 0
      [] OTHER        -> TRUE

\* one value of a result row, with the engine type it came from
Cell(type, n, s) == [type |-> type, n |-> n, s |-> s]

(***************************************************************************)
(* Datasets and the embedded SQL engine (DuckDB), as far as the handlers   *)
(* use it.                                                                 *)
(***************************************************************************)
TN_t == <<"t">>
TN_sales == <<"s","a","l","e","s">>
TN_spaced == <<"m","y"," ","t","a","b","l","e">>

\* the table_name form field of an upload; <<>> is a missing field
TableNames == {<<>>, TN_t, TN_sales, TN_spaced}
\* names CREATE TABLE accepts unquoted
ValidTableNames == {tn \in TableNames : tn # <<>> /\ ~Contains(<<" ">>, tn)}

Col(name, type) == [name |-> name, type |-> type]

\* the rows of the sample files: an id column and one more column
DataRows(type, text) ==
    [i \in 1..MaxRows |-> <<Cell("BIGINT", i, ""), Cell(type, 0, text)>>]

\* contents of an uploaded file: what read_csv_auto makes of them
CSV_GOOD == [parses |-> TRUE, cols |-> <<Col("id", "BIGINT"), Col("name", "VARCHAR")>>,
             rows |-> DataRows("VARCHAR", "n")]
CSV_TIME == [parses |-> TRUE, cols |-> <<Col("id", "BIGINT"), Col("at", "TIME")>>,
             rows |-> DataRows("TIME", "12:30:00")]
CSV_EMPTY == [parses |-> FALSE, cols |-> <<>>, rows |-> <<>>]
FileContents == {CSV_GOOD, CSV_TIME, CSV_EMPTY}

\* a database without the session's table (before CREATE TABLE, after DROP)
NoTable == <<>>
EmptyDb == [table |-> NoTable, cols |-> <<>>, rows |-> <<>>]

SELECT_ALL_ == <<"S","E","L","E","C","T"," ","*"," ","F","R","O","M"," ">>
DELETE_ == <<"D","E","L","E","T","E"," ","F","R","O","M"," ">>
DROP_ == <<"D","R","O","P"," ","T","A","B","L","E"," ">>
DESCRIBE_ == <<"D","E","S","C","R","I","B","E"," ">>
PRAGMA_FN_OPEN == <<"S","E","L","E","C","T"," ","*"," ","F","R","O","M"," ","P","R","A","G","M","A","_","T","A","B","L","E","_","I","N","F","O","(","'">>
PRAGMA_OPEN == <<"P","R","A","G","M","A"," ","t","a","b","l","e","_","i","n","f","o","(","'">>
PRAGMA_CLOSE == <<"'",")">>
SQL_LITERAL == <<"S","E","L","E","C","T"," ","'","E","r","r","o","r","'"," ","A","S"," ","e">>
SQL_BADCOL == <<"S","E","L","E","C","T"," ","n","o","s","u","c","h">>
ERROR_WORD == <<"E","r","r","o","r">>
SENTINEL_SQL == <<"E","r","r","o","r"," ","g","e","n","e","r","a","t","i","n","g"," ","S","Q","L",".">>

SqlSelectAll(tn) == SELECT_ALL_ \o tn
SqlDelete(tn) == DELETE_ \o tn
SqlDrop(tn) == DROP_ \o tn
SqlPragmaFn(tn) == PRAGMA_FN_OPEN \o tn \o PRAGMA_CLOSE
SqlPragma(tn) == PRAGMA_OPEN \o tn \o PRAGMA_CLOSE

PragmaHeaders == <<"cid", "name", "type", "notnull", "dflt_value", "pk">>
PragmaRows(cols) ==
    [i \in DOMAIN cols |->
        <<Cell("INTEGER", i - 1, ""), Cell("VARCHAR", 0, cols[i].name),
          Cell("VARCHAR", 0, cols[i].type), Cell("BOOLEAN", 0, "false"),
          Cell("VARCHAR", 0, "NULL"), Cell("BOOLEAN", 0, "false")>>]

EngineOk(headers, rows, db) ==
    [ok |-> TRUE, headers |-> headers, rows |-> rows, error |-> "", db |-> db]
EngineError(msg, db) ==
    [ok |-> FALSE, headers |-> <<>>, rows |-> <<>>, error |-> msg, db |-> db]

\* con.execute(sql) followed by cursor.description and fetchall(), on a
\* connection opened with read_only=False: the statement takes effect.
Engine(open, db, sql) ==
    LET live == db.table # NoTable
    IN  CASE ~open ->
               EngineError("Connection Error: Connection already closed!", db)
          [] open /\ live /\ sql = SqlSelectAll(db.table) ->
               EngineOk([i \in DOMAIN db.cols |-> db.cols[i].name], db.rows, db)
          [] open /\ live /\ sql \in {SqlPragmaFn(db.table), SqlPragma(db.table)} ->
               EngineOk(PragmaHeaders, PragmaRows(db.cols), db)
          [] open /\ live /\ sql = SqlDelete(db.table) ->
               EngineOk(<<"Count">>, <<<<Cell("BIGINT", Len(db.rows), "")>>>>,
                        [db EXCEPT !.rows = <<>>])
          [] open /\ live /\ sql = SqlDrop(db.table) ->
               EngineOk(<<"Success">>, <<>>, EmptyDb)
          [] open /\ sql = SQL_LITERAL ->
               EngineOk(<<"e">>, <<<<Cell("VARCHAR", 0, "Error")>>>>, db)
          [] OTHER ->
               EngineError("Parser/Catalog/Binder Error", db)

\* whether flask.jsonify can serialize the rows: datetime.time values (a TIME
\* column) are not handled by Flask's JSON provider and raise TypeError
Jsonable(rows) ==
    \A i \in DOMAIN rows : \A j \in DOMAIN rows[i] : rows[i][j].type # "TIME"

(***************************************************************************)
(* The language model's reply and its parsing (ask_query, lines 199-211).  *)
(*                                                                         *)
(* A reply's content is a JSON text (payload), possibly inside a ```json   *)
(* fence, possibly with prose around it. The payload is described by its   *)
(* shape: a JSON object (with or without each key), an object text with a  *)
(* trailing comma, plain prose, or a JSON array.                           *)
(***************************************************************************)
Payload(k, has_sql, sql, has_expl) ==
    [k |-> k, has_sql |-> has_sql, sql |-> sql, has_expl |-> has_expl]
ObjectSql(sql) == Payload("object", TRUE, sql, TRUE)

Payloads ==
    {ObjectSql(PyStr(SqlSelectAll(tn))) : tn \in ValidTableNames}
    \cup {ObjectSql(PyStr(SqlDelete(TN_t))), ObjectSql(PyStr(SqlDrop(TN_sales)))}
    \cup {ObjectSql(PyStr(SQL_LITERAL)), ObjectSql(PyStr(SQL_BADCOL)),
          ObjectSql(PyStr(<<>>)), ObjectSql(PyNone), ObjectSql(PyInt(5)),
          Payload("object", FALSE, PyNone, TRUE),
          Payload("object", TRUE, PyStr(SqlSelectAll(TN_t)), FALSE),
          Payload("trailing_comma", TRUE, PyStr(SqlSelectAll(TN_t)), TRUE),
          Payload("prose", FALSE, PyNone, FALSE),
          Payload("array", FALSE, PyNone, FALSE)}

Content(prose, fenced, payload) ==
    [prose |-> prose, fenced |-> fenced, payload |-> payload]
\* every payload as the whole content, and some of them fenced or with prose
LLMReplies ==
    {Content(FALSE, FALSE, pl) : pl \in Payloads}
    \cup {Content(pr, f, pl) :
            pr \in BOOLEAN, f \in BOOLEAN,
            pl \in {ObjectSql(PyStr(SqlSelectAll(TN_t))),
                    Payload("trailing_comma", TRUE, PyStr(SqlSelectAll(TN_t)), TRUE)}}
NoReply == Content(FALSE, FALSE, Payload("none", FALSE, PyNone, FALSE))

\* re.search(r'```json\n(.*?)```', content, re.DOTALL): the fenced text if
\* there is a fence, else the whole content (prose included); both stripped
ExtractJson(content) ==
    IF content.fenced
    THEN Content(FALSE, FALSE, content.payload)
    ELSE Content(content.prose, FALSE, content.payload)

\* json.loads(text)
JsonLoads(text) ==
    IF text.prose \/ text.payload.k \in {"trailing_comma", "prose"}
    THEN [ok |-> FALSE, kind |-> "none", value |-> text.payload]
    ELSE [ok |-> TRUE,
          kind |-> IF text.payload.k = "object" THEN "dict" ELSE "list",
          value |-> text.payload]

PyText(v) == [t |-> "text", v |-> v]
EXPLANATION == PyText("This query does...")
SENTINEL_EXPLANATION == PyText("Failed to generate a valid explanation.")
\* f"LLM returned invalid JSON. Response was: {generated_json}"
InvalidJsonExplanation(generated_json) ==
    [t |-> "fstr", v |-> "LLM returned invalid JSON. Response was: ",
     arg |-> generated_json]

\* lines 199-211: raised is the AttributeError of .get on a non-dict, which
\* only the handler's outer except catches
ParseReply(content) ==
    LET generated_json == ExtractJson(content)
        parsed == JsonLoads(generated_json)
    IN  IF ~parsed.ok
        THEN [raised |-> FALSE, sql_query |-> PyStr(SENTINEL_SQL),
              explanation |-> InvalidJsonExplanation(generated_json)]
        ELSE IF parsed.kind # "dict"
        THEN [raised |-> TRUE, sql_query |-> PyNone, explanation |-> PyNone]
        ELSE [raised |-> FALSE,
              sql_query |-> IF parsed.value.has_sql THEN parsed.value.sql
                            ELSE PyStr(SENTINEL_SQL),
              explanation |-> IF parsed.value.has_expl THEN EXPLANATION
                              ELSE SENTINEL_EXPLANATION]

\* line 215 without the test for the sentinel
ExecuteGuard_runsSentinel(execute_sql, sql_query) ==
    IF ~execute_sql \/ ~Truthy(sql_query)
    THEN [raised |-> FALSE, run |-> FALSE]
    ELSE [raised |-> sql_query.t # "str", run |-> sql_query.t = "str"]

\* line 215 without the test of the caller's flag
ExecuteGuard_ignoresFlag(execute_sql, sql_query) ==
    IF ~Truthy(sql_query)
    THEN [raised |-> FALSE, run |-> FALSE]
    ELSE IF sql_query.t = "str"
    THEN [raised |-> FALSE, run |-> ~Contains(ERROR_WORD, sql_query.s)]
    ELSE [raised |-> TRUE, run |-> FALSE]

\* line 215: execute_sql and sql_query and "Error" not in sql_query
\* (raised: `in` on a number is a TypeError)
ExecuteGuard(execute_sql, sql_query) ==
    IF ~execute_sql \/ ~Truthy(sql_query)
    THEN [raised |-> FALSE, run |-> FALSE]
    ELSE IF sql_query.t = "str"
    THEN [raised |-> FALSE, run |-> ~Contains(ERROR_WORD, sql_query.s)]
    ELSE [raised |-> TRUE, run |-> FALSE]

\* the try/except with results assigned before the statement is known to
\* have succeeded
TryExecute_keepsResults(open, db, sql) ==
    LET r == Engine(open, db, sql)
    IN  [results |-> PyList(r.headers, r.rows),
         execution_error |-> IF r.ok THEN PyNone ELSE PyText(r.error),
         db |-> r.db]

\* lines 213-229 (and 142-150): the statement is run inside try/except; an
\* engine error becomes execution_error and leaves results None
TryExecute(open, db, sql) ==
    LET r == Engine(open, db, sql)
    IN  IF r.ok
        THEN [results |-> PyList(r.headers, r.rows), execution_error |-> PyNone,
              db |-> r.db]
        ELSE [results |-> PyNone, execution_error |-> PyText(r.error), db |-> r.db]

\* lines 48-61
format_schema_for_prompt(open, db, table_name) ==
    LET r == Engine(open, db, SqlPragma(table_name))
    IN  IF r.ok
        THEN [ok |-> TRUE, table |-> table_name,
              lines |-> [i \in DOMAIN r.rows |-> <<r.rows[i][2].s, r.rows[i][3].s>>]]
        ELSE [ok |-> FALSE, table |-> table_name, lines |-> <<>>]

KW_schema == <<"s","c","h","e","m","a">>
KW_columns == <<"c","o","l","u","m","n","s">>
KW_data_types == <<"d","a","t","a"," ","t","y","p","e","s">>
KW_table_info == <<"t","a","b","l","e"," ","i","n","f","o">>
KW_structure == <<"s","t","r","u","c","t","u","r","e">>
KW_describe == <<"d","e","s","c","r","i","b","e">>
schema_keywords ==
    {KW_schema, KW_columns, KW_data_types, KW_table_info, KW_structure, KW_describe}

\* line 136: any(word in question for word in schema_keywords)
HasSchemaKeyword(question) == \E word \in schema_keywords : Contains(word, question)

Q_SCHEMA == <<"S","C","H","E","M","A">>
Q_COLUMNS == <<"t","h","e"," ","C","o","l","u","m","n","s">>
Q_TOP == <<"T","o","p"," ","S","a","l","e","s">>
\* the question form field
Questions == {Q_SCHEMA, Q_COLUMNS, Q_TOP}

(***************************************************************************)
(* State.                                                                  *)
(***************************************************************************)
VARIABLES
    db_session,  \* the global registry: session id -> entry (line 25)
    conOpen,     \* the DuckDB connections that are open
    files,       \* the paths that exist on disk
    dbs,         \* contents of each connection's database
    served,      \* number of requests taken so far
    nextId,      \* number of the next temporary file / connection / session id
    cleared,     \* history: ids for which clear_session answered success
    ingested,    \* history: the dataset each connection's table was created with
    pc,          \* position of each worker thread
    req,         \* the request a worker is serving: its inputs and locals
    resp         \* the response a worker has produced

vars == <<db_session, conOpen, files, dbs, nextId, cleared, ingested, pc, req, resp,
          served>>

Workers == {"w1", "w2"}
Ids == 1..MaxUploads
\* a session_id form field that is missing from the request
NoId == 0
RequestIds == Ids \cup {NoId}

Path(n, suffix) == [id |-> n, suffix |-> suffix]
NoPath == Path(0, <<>>)

Entry(con, file_path, db_file_path, table_name) ==
    [con |-> con, file_path |-> file_path, db_file_path |-> db_file_path,
     table_name |-> table_name]

FN_csv == <<"d","a","t","a",".","c","s","v">>
FN_CSV == <<"D","A","T","A",".","C","S","V">>
FN_txt == <<"n","o","t","e","s",".","t","x","t">>
FN_noext == <<"d","a","t","a">>
\* file.filename; <<>> is "no file selected"
Filenames == {<<>>, FN_csv, FN_CSV, FN_txt, FN_noext}

UploadRequest(has_file, filename, table_name, content) ==
    [has_file |-> has_file, filename |-> filename, table_name |-> table_name,
     content |-> content]
UploadRequests ==
    {UploadRequest(FALSE, <<>>, TN_t, CSV_GOOD),
     UploadRequest(TRUE, <<>>, TN_t, CSV_GOOD),
     UploadRequest(TRUE, FN_csv, <<>>, CSV_GOOD),
     UploadRequest(TRUE, FN_txt, TN_t, CSV_GOOD),
     UploadRequest(TRUE, FN_CSV, TN_t, CSV_GOOD),
     UploadRequest(TRUE, FN_noext, TN_t, CSV_GOOD),
     UploadRequest(TRUE, FN_csv, TN_spaced, CSV_GOOD),
     UploadRequest(TRUE, FN_csv, TN_t, CSV_EMPTY),
     UploadRequest(TRUE, FN_csv, TN_t, CSV_GOOD),
     UploadRequest(TRUE, FN_csv, TN_sales, CSV_TIME)}
NoUpload ==
    [has_file |-> FALSE, filename |-> <<>>, table_name |-> <<>>, content |-> CSV_EMPTY]

NoSeen == [open |-> FALSE, db |-> EmptyDb]
NoPrompt == [question |-> <<>>, table_name |-> <<>>,
             schema |-> [ok |-> FALSE, table |-> <<>>, lines |-> <<>>]]

\* a worker's locals; the fields after db_file_path are history kept for
\* the properties and are never read by the handlers
IdleReq ==
    [op |-> "none", sid |-> NoId, question |-> <<>>, execute_sql |-> FALSE,
     con |-> 0, table_name |-> <<>>, file_path |-> NoPath, db_file_path |-> NoPath,
     asked |-> <<>>, upload |-> NoUpload, after_clear |-> FALSE, found |-> FALSE,
     llm_calls |-> 0, prompt |-> NoPrompt, reply |-> NoReply, executed |-> <<>>,
     seen |-> NoSeen, db_after |-> EmptyDb, new_sid |-> NoId, known |-> FALSE]

Response(code, status, message) ==
    [code |-> code, status |-> status, message |-> message, session_id |-> NoId,
     data |-> PyNone, sql_query |-> PyNone, explanation |-> PyNone,
     results |-> PyNone, execution_error |-> PyNone]
NoResponse == Response(0, "none", "")
\* an exception no handler catches: Flask answers 500
Fault(exc) == Response(500, "fault", exc)

QueryResponse(sql_query, explanation, results, execution_error) ==
    [Response(200, "success", "") EXCEPT
        !.sql_query = sql_query, !.explanation = explanation,
        !.results = results, !.execution_error = execution_error]

Init ==
    /\ db_session = <<>>
    /\ conOpen = {}
    /\ files = {}
    /\ dbs = [n \in Ids |-> EmptyDb]
    /\ nextId = 1
    /\ served = 0
    /\ cleared = {}
    /\ ingested = [n \in Ids |-> EmptyDb]
    /\ pc = [w \in Workers |-> "idle"]
    /\ req = [w \in Workers |-> IdleReq]
    /\ resp = [w \in Workers |-> NoResponse]

\* the handler returns: pc[w] = "done" is the state in which the response is
\* observed, next to the request that produced it
Finish(w, r, response) ==
    /\ pc' = [pc EXCEPT ![w] = "done"]
    /\ req' = [req EXCEPT ![w] = r]
    /\ resp' = [resp EXCEPT ![w] = response]

Goto(w, r, label) ==
    /\ pc' = [pc EXCEPT ![w] = label]
    /\ req' = [req EXCEPT ![w] = r]
    /\ UNCHANGED resp

\* the scheduling of a server that serialises its handlers behind one lock
\* held across the translator call
Scheduled_lockedWhileAsking(w) ==
    \A v \in Workers \ {w} : pc[v] \notin {"done", "ask_llm"}

\* A worker that holds a finished response hands it back before another
\* thread is scheduled: Return touches only the worker's own locals, so
\* this drops no interleaving of the handlers' statements.
Scheduled(w) == \A v \in Workers \ {w} : pc[v] # "done"

\* the worker thread takes the next request
Return(w) ==
    /\ pc[w] = "done"
    /\ UNCHANGED <<served, ingested>>
    /\ pc' = [pc EXCEPT ![w] = "idle"]
    /\ req' = [req EXCEPT ![w] = IdleReq]
    /\ resp' = [resp EXCEPT ![w] = NoResponse]
    /\ UNCHANGED <<db_session, conOpen, files, dbs, nextId, cleared>>

(***************************************************************************)
(* upload_file (lines 68-117) with get_db_info (lines 27-46).              *)
(***************************************************************************)
PreviewLimit == 20

\* line 34: file_path.replace(file_ext, '.duckdb'), file_ext lowercased. The
\* temporary name has no dot but the suffix's, so the suffix is replaced when
\* it equals file_ext and the path is returned unchanged when it does not;
\* an empty file_ext matches between all characters
DbFilePath(file_path, file_ext) ==
    IF file_ext = <<>> THEN Path(file_path.id, <<"*">>)
    ELSE IF file_path.suffix = file_ext THEN Path(file_path.id, EXT_duckdb)
    ELSE file_path

\* what one upload that passed the form checks does, as a record:
\*   connects   duckdb.connect succeeded (line 35): the connection is open and
\*              the database file exists
\*   created    CREATE TABLE succeeded (line 43) and so did lines 91-95
\*   serialized jsonify of the success response succeeded (line 105)
UploadSteps(u, n) ==
    LET file_path == Path(n, SplitExt(u.filename))
        file_ext == Lower(file_path.suffix)
        db_file_path == DbFilePath(file_path, file_ext)
        connects == file_ext # <<>> /\ db_file_path # file_path
        created == /\ connects
                   /\ file_ext = EXT_csv
                   /\ u.table_name \in ValidTableNames
                   /\ u.content.parses
        preview_data == SubSeq(u.content.rows, 1,
                               IF Len(u.content.rows) < PreviewLimit
                               THEN Len(u.content.rows) ELSE PreviewLimit)
    IN  [file_path |-> file_path, db_file_path |-> db_file_path,
         connects |-> connects, created |-> created,
         registered |-> created,
         serialized |-> created /\ Jsonable(preview_data),
         preview_data |-> preview_data]

Upload(w) ==
    /\ Scheduled(w)
    /\ served < MaxRequests
    /\ served' = served + 1
    /\ pc[w] = "idle"
    /\ \E u \in UploadRequests :
        LET r0 == [IdleReq EXCEPT !.op = "upload", !.upload = u]
        IN
        IF ~u.has_file \/ u.filename = <<>> \/ u.table_name = <<>>
        THEN /\ Finish(w, r0, Response(400, "error", "bad form"))
             /\ UNCHANGED <<db_session, conOpen, files, dbs, nextId, cleared, ingested>>
        ELSE /\ nextId <= MaxUploads
             /\ LET n == nextId
                    st == UploadSteps(u, n)
                    \* os.urandom(16).hex(): 128 random bits, taken as an id
                    \* that was never issued before
                    session_id == n
                IN  /\ nextId' = nextId + 1
                    /\ conOpen' = IF st.connects THEN conOpen \cup {n} ELSE conOpen
                    \* the except clause (lines 115-116) removes the temporary
                    \* file only
                    /\ files' = (files \cup (IF st.connects THEN {st.db_file_path} ELSE {}))
                                \cup (IF st.serialized THEN {st.file_path} ELSE {})
                    /\ dbs' = IF st.created
                              THEN [dbs EXCEPT ![n] = [table |-> u.table_name,
                                                       cols |-> u.content.cols,
                                                       rows |-> u.content.rows]]
                              ELSE dbs
                    /\ ingested' = [ingested EXCEPT ![n] = dbs'[n]]
                    /\ db_session' =
                          IF st.registered
                          THEN (session_id :> Entry(n, st.file_path, st.db_file_path,
                                                    u.table_name)) @@ db_session
                          ELSE db_session
                    /\ Finish(w,
                              [r0 EXCEPT !.new_sid = IF st.registered THEN session_id
                                                     ELSE NoId],
                              IF st.serialized
                              THEN [Response(200, "success", "uploaded") EXCEPT
                                      !.session_id = session_id,
                                      !.data = [columns |-> u.content.cols,
                                                total_rows |-> Len(u.content.rows),
                                                preview_data |-> st.preview_data,
                                                table_name |-> u.table_name]]
                              ELSE Response(500, "error", "exception"))
                    /\ UNCHANGED cleared

(***************************************************************************)
(* ask_query (lines 119-239).                                              *)
(***************************************************************************)
\* lines 122-136: read the form, look the session up, pick the path
AskStart(w) ==
    /\ Scheduled(w)
    /\ served < MaxRequests
    /\ served' = served + 1
    /\ UNCHANGED ingested
    /\ pc[w] = "idle"
    /\ \E asked \in Questions, session_id \in RequestIds, execute_sql \in BOOLEAN :
        LET question == Lower(asked)
            r0 == [IdleReq EXCEPT !.op = "ask", !.sid = session_id,
                                  !.asked = asked, !.question = question,
                                  !.execute_sql = execute_sql,
                                  !.after_clear = session_id \in cleared,
                                  !.known = session_id \in DOMAIN db_session]
        IN  IF session_id = NoId \/ session_id \notin DOMAIN db_session
            THEN Finish(w, r0, Response(404, "error", "Session not found."))
            ELSE Goto(w, [r0 EXCEPT !.found = TRUE,
                                    !.con = db_session[session_id].con,
                                    !.table_name = db_session[session_id].table_name],
                      IF HasSchemaKeyword(question) THEN "ask_schema"
                      ELSE "ask_translate")
    /\ UNCHANGED <<db_session, conOpen, files, dbs, nextId, cleared>>

\* lines 137-158: the schema shortcut
AskSchema(w) ==
    /\ Scheduled(w)
    /\ UNCHANGED <<served, ingested>>
    /\ pc[w] = "ask_schema"
    /\ LET r == req[w]
           open == r.con \in conOpen
           sql_display == PyStr(DESCRIBE_ \o r.table_name \o <<";">>)
           sql_execution == SqlPragmaFn(r.table_name)
           x == TryExecute(open, dbs[r.con], sql_execution)
       IN  /\ dbs' = [dbs EXCEPT ![r.con] = x.db]
           /\ Finish(w, [r EXCEPT !.executed = Append(@, sql_execution),
                                  !.seen = [open |-> open, db |-> dbs[r.con]],
                                  !.db_after = x.db],
                     QueryResponse(sql_display, PyText("This query retrieves the schema"),
                                   x.results, x.execution_error))
    /\ UNCHANGED <<db_session, conOpen, files, nextId, cleared>>

\* lines 192-197 with the call repeated once
AskInvoke_retries(w) ==
    /\ Scheduled(w)
    /\ UNCHANGED <<served, ingested>>
    /\ pc[w] = "ask_translate"
    /\ LET r == req[w]
           formatted_schema ==
               format_schema_for_prompt(r.con \in conOpen, dbs[r.con], r.table_name)
       IN  Goto(w, [r EXCEPT !.llm_calls = @ + 2,
                             !.prompt = [question |-> r.question,
                                         table_name |-> r.table_name,
                                         schema |-> formatted_schema]],
                "ask_llm")
    /\ UNCHANGED <<db_session, conOpen, files, dbs, nextId, cleared>>

\* lines 162-197: render the schema, build the prompt and send it; the
\* worker then waits for the language-model service
AskInvoke(w) ==
    /\ Scheduled(w)
    /\ UNCHANGED <<served, ingested>>
    /\ pc[w] = "ask_translate"
    /\ LET r == req[w]
           formatted_schema ==
               format_schema_for_prompt(r.con \in conOpen, dbs[r.con], r.table_name)
       IN  Goto(w, [r EXCEPT !.llm_calls = @ + 1,
                             !.prompt = [question |-> r.question,
                                         table_name |-> r.table_name,
                                         schema |-> formatted_schema]],
                "ask_llm")
    /\ UNCHANGED <<db_session, conOpen, files, dbs, nextId, cleared>>

\* an except clause that drops the session whose request failed
AskException_evicts(w, r, exc) ==
    /\ Finish(w, r, Response(500, "error", exc))
    /\ db_session' = [k \in DOMAIN db_session \ {r.sid} |-> db_session[k]]
    /\ UNCHANGED <<conOpen, files, dbs, nextId, cleared>>

\* lines 238-239: any exception inside the try is a 500 error response
AskException(w, r, exc) ==
    /\ Finish(w, r, Response(500, "error", exc))
    /\ UNCHANGED <<db_session, conOpen, files, dbs, nextId, cleared>>

\* chain.invoke raises (network, timeout, authentication)
AskServiceError(w) ==
    /\ Scheduled(w)
    /\ UNCHANGED <<served, ingested>>
    /\ pc[w] = "ask_llm"
    /\ AskException(w, req[w], "TranslationServiceError")

\* lines 199-237 for one reply of the service
AskFinish(w, content) ==
    LET r == [req[w] EXCEPT !.reply = content]
        parsed == ParseReply(content)
        guard == ExecuteGuard(r.execute_sql, parsed.sql_query)
        open == r.con \in conOpen
    IN  IF parsed.raised
        THEN AskException(w, r, "AttributeError")
        ELSE IF guard.raised
        THEN AskException(w, r, "TypeError")
        ELSE IF ~guard.run
        THEN /\ Finish(w, r, QueryResponse(parsed.sql_query, parsed.explanation,
                                           PyNone, PyNone))
             /\ UNCHANGED <<db_session, conOpen, files, dbs, nextId, cleared>>
        ELSE LET x == TryExecute(open, dbs[r.con], parsed.sql_query.s)
                 r1 == [r EXCEPT !.executed = Append(@, parsed.sql_query.s),
                                 !.seen = [open |-> open, db |-> dbs[r.con]],
                                 !.db_after = x.db]
             IN  /\ dbs' = [dbs EXCEPT ![r.con] = x.db]
                 \* jsonify (line 231) is inside the try
                 /\ IF x.results.t = "list" /\ ~Jsonable(x.results.rows)
                    THEN Finish(w, r1, Response(500, "error", "TypeError"))
                    ELSE Finish(w, r1, QueryResponse(parsed.sql_query, parsed.explanation,
                                                     x.results, x.execution_error))
                 /\ UNCHANGED <<db_session, conOpen, files, nextId, cleared>>

\* the service answers
AskReply(w) ==
    /\ Scheduled(w)
    /\ UNCHANGED <<served, ingested>>
    /\ pc[w] = "ask_llm"
    /\ \E content \in LLMReplies : AskFinish(w, content)

(***************************************************************************)
(* clear_session (lines 241-260), statement by statement.                  *)
(***************************************************************************)
\* line 245
ClearStart(w) ==
    /\ Scheduled(w)
    /\ served < MaxRequests
    /\ served' = served + 1
    /\ UNCHANGED ingested
    /\ pc[w] = "idle"
    /\ \E session_id \in RequestIds :
        LET r0 == [IdleReq EXCEPT !.op = "clear", !.sid = session_id,
                                  !.after_clear = session_id \in cleared]
        IN  IF session_id \in DOMAIN db_session
            THEN Goto(w, [r0 EXCEPT !.found = TRUE], "clear_read")
            ELSE Finish(w, r0, Response(404, "error", "Session not found."))
    /\ UNCHANGED <<db_session, conOpen, files, dbs, nextId, cleared>>

\* lines 246-247
ClearRead(w) ==
    /\ Scheduled(w)
    /\ UNCHANGED <<served, ingested>>
    /\ pc[w] = "clear_read"
    /\ LET r == req[w]
       IN  IF r.sid \in DOMAIN db_session
           THEN Goto(w, [r EXCEPT !.con = db_session[r.sid].con,
                                  !.file_path = db_session[r.sid].file_path,
                                  !.db_file_path = db_session[r.sid].db_file_path],
                     "clear_close")
           ELSE Finish(w, r, Fault("KeyError"))
    /\ UNCHANGED <<db_session, conOpen, files, dbs, nextId, cleared>>

\* line 248: close() on a closed connection does nothing
ClearClose(w) ==
    /\ Scheduled(w)
    /\ UNCHANGED <<served, ingested>>
    /\ pc[w] = "clear_close"
    /\ conOpen' = conOpen \ {req[w].con}
    /\ Goto(w, req[w], "clear_file")
    /\ UNCHANGED <<db_session, files, dbs, nextId, cleared>>

\* line 253
ClearFileExists(w) ==
    /\ Scheduled(w)
    /\ UNCHANGED <<served, ingested>>
    /\ pc[w] = "clear_file"
    /\ Goto(w, req[w], IF req[w].file_path \in files THEN "clear_rm_file"
                       ELSE "clear_db_file")
    /\ UNCHANGED <<db_session, conOpen, files, dbs, nextId, cleared>>

\* line 254
ClearRemoveFile(w) ==
    /\ Scheduled(w)
    /\ UNCHANGED <<served, ingested>>
    /\ pc[w] = "clear_rm_file"
    /\ IF req[w].file_path \in files
       THEN /\ files' = files \ {req[w].file_path}
            /\ Goto(w, req[w], "clear_db_file")
       ELSE /\ Finish(w, req[w], Fault("FileNotFoundError"))
            /\ UNCHANGED files
    /\ UNCHANGED <<db_session, conOpen, dbs, nextId, cleared>>

\* line 255
ClearDbFileExists(w) ==
    /\ Scheduled(w)
    /\ UNCHANGED <<served, ingested>>
    /\ pc[w] = "clear_db_file"
    /\ Goto(w, req[w], IF req[w].db_file_path \in files THEN "clear_rm_db_file"
                       ELSE "clear_del")
    /\ UNCHANGED <<db_session, conOpen, files, dbs, nextId, cleared>>

\* line 256
ClearRemoveDbFile(w) ==
    /\ Scheduled(w)
    /\ UNCHANGED <<served, ingested>>
    /\ pc[w] = "clear_rm_db_file"
    /\ IF req[w].db_file_path \in files
       THEN /\ files' = files \ {req[w].db_file_path}
            /\ Goto(w, req[w], "clear_del")
       ELSE /\ Finish(w, req[w], Fault("FileNotFoundError"))
            /\ UNCHANGED files
    /\ UNCHANGED <<db_session, conOpen, dbs, nextId, cleared>>

\* db_session.clear() in place of the del
Remove_all(registry, session_id) ==
    [k \in {} |-> registry[k]]

\* del db_session[session_id]
Remove(registry, session_id) ==
    [k \in DOMAIN registry \ {session_id} |-> registry[k]]

\* lines 258-259 without the del
ClearDel_keepsEntry(w) ==
    /\ Scheduled(w)
    /\ UNCHANGED <<served, ingested>>
    /\ pc[w] = "clear_del"
    /\ cleared' = cleared \cup {req[w].sid}
    /\ Finish(w, req[w], Response(200, "success", "Session cleared."))
    /\ UNCHANGED <<db_session, conOpen, files, dbs, nextId>>

\* lines 258-259
ClearDel(w) ==
    /\ Scheduled(w)
    /\ UNCHANGED <<served, ingested>>
    /\ pc[w] = "clear_del"
    /\ IF req[w].sid \in DOMAIN db_session
       THEN /\ db_session' = Remove(db_session, req[w].sid)
            /\ cleared' = cleared \cup {req[w].sid}
            /\ Finish(w, req[w], Response(200, "success", "Session cleared."))
       ELSE /\ Finish(w, req[w], Fault("KeyError"))
            /\ UNCHANGED <<db_session, cleared>>
    /\ UNCHANGED <<conOpen, files, dbs, nextId>>

Next ==
    \E w \in Workers :
        \/ Upload(w)
        \/ AskStart(w)
        \/ AskSchema(w)
        \/ AskInvoke(w)
        \/ AskServiceError(w)
        \/ AskReply(w)
        \/ ClearStart(w)
        \/ ClearRead(w)
        \/ ClearClose(w)
        \/ ClearFileExists(w)
        \/ ClearRemoveFile(w)
        \/ ClearDbFileExists(w)
        \/ ClearRemoveDbFile(w)
        \/ ClearDel(w)
        \/ Return(w)

Spec == Init /\ [][Next]_vars

(***************************************************************************)
(* Properties.                                                             *)
(***************************************************************************)
Done(w, op) == pc[w] = "done" /\ req[w].op = op

\* the sample questions that contain a schema keyword in some letter case
KeywordQuestions == {Q_SCHEMA, Q_COLUMNS}

\* the reply does not decode as JSON: the payload is malformed, or prose
\* surrounds it and no fence sets it apart
Undecodable(content) ==
    /\ content # NoReply
    /\ \/ content.payload.k \in {"trailing_comma", "prose"}
       \/ content.prose /\ ~content.fenced

\* C1: once clear_session(id) has answered success, every ask(id, ...) and
\* every clear_session(id) that starts later is answered session-not-found
\* (404), not with an unhandled fault.
C1_ClearedSessionNotFound ==
    \A w \in Workers :
        (pc[w] = "done" /\ req[w].op \in {"ask", "clear"} /\ req[w].after_clear)
        => /\ resp[w].code = 404
           /\ resp[w].status = "error"

C1_Witness ==
    \E w \in Workers :
        /\ Done(w, "ask") /\ req[w].after_clear /\ resp[w].code = 404
        /\ req[w].sid \in cleared

C3_MalformedReply ==
    \A w \in Workers :
        (Done(w, "ask") /\ Undecodable(req[w].reply))
        => /\ resp[w].status = "success"
           /\ resp[w].sql_query = PyStr(SENTINEL_SQL)
           /\ resp[w].explanation.t = "fstr"
           /\ resp[w].explanation.arg.payload = req[w].reply.payload
           /\ resp[w].results = PyNone
           /\ resp[w].execution_error = PyNone
           /\ req[w].executed = <<>>

C3_Witness ==
    \E w \in Workers :
        /\ Done(w, "ask") /\ req[w].execute_sql
        /\ req[w].reply.payload.k = "trailing_comma"
        /\ req[w].con \in conOpen
        /\ resp[w].status = "success"

\* C4 as claimed: with execute=false, on every path of an ask of an existing
\* session, no statement is executed and results is null.
C4_Original ==
    \A w \in Workers :
        (Done(w, "ask") /\ req[w].found /\ ~req[w].execute_sql)
        => /\ req[w].executed = <<>>
           /\ resp[w].results = PyNone

\* C4 as amended: with execute=false, an ask that takes the translation path
\* executes no statement, leaves the dataset as it was and answers with null
\* results; the schema shortcut runs its one introspection statement whatever
\* the flag.
C4_NoOptInNoExecution ==
    \A w \in Workers :
        (Done(w, "ask") /\ req[w].found)
        => /\ (~req[w].execute_sql /\ req[w].asked \notin KeywordQuestions)
                => /\ req[w].executed = <<>>
                   /\ resp[w].results = PyNone
           /\ req[w].asked \in KeywordQuestions
                => req[w].executed = <<SqlPragmaFn(req[w].table_name)>>

C4_Witness ==
    \E w \in Workers :
        /\ Done(w, "ask") /\ req[w].found /\ ~req[w].execute_sql
        /\ req[w].reply = Content(FALSE, FALSE, ObjectSql(PyStr(SqlSelectAll(TN_t))))
        /\ req[w].table_name = TN_t
        /\ req[w].con \in conOpen
        /\ resp[w].status = "success"

\* C5: no ask response has both results and execution_error; and when the
\* engine rejects the executed statement the response is a success whose
\* execution_error is the engine's error text and whose results is null.
C5_SoftFailure ==
    \A w \in Workers :
        Done(w, "ask")
        => /\ ~(resp[w].results # PyNone /\ resp[w].execution_error # PyNone)
           /\ \A i \in DOMAIN req[w].executed :
                LET r == Engine(req[w].seen.open, req[w].seen.db, req[w].executed[i])
                IN  ~r.ok => /\ resp[w].status = "success"
                             /\ resp[w].code = 200
                             /\ resp[w].execution_error = PyText(r.error)
                             /\ resp[w].results = PyNone

C5_Witness ==
    \E w \in Workers :
        /\ Done(w, "ask") /\ req[w].executed = <<SQL_BADCOL>>
        /\ req[w].seen.open
        /\ resp[w].execution_error # PyNone

\* C6: an ask leaves the session's dataset (table name, columns, rows) as it
\* was, whatever statement the translator returned.
C6_DatasetImmutable ==
    \A w \in Workers :
        (Done(w, "ask") /\ req[w].executed # <<>>)
        => req[w].db_after = req[w].seen.db

\* C7: an upload that answers with an error has registered no session.
C7_FailedUploadRegistersNothing ==
    \A w \in Workers :
        (Done(w, "upload") /\ resp[w].status = "error")
        => req[w].new_sid = NoId

\* C8: when no request is in flight, the open connections and the files on
\* disk are exactly those of the registered sessions.
C8_NoResourceOutlivesSession ==
    (\A w \in Workers : pc[w] = "idle")
    => /\ conOpen = {db_session[k].con : k \in DOMAIN db_session}
       /\ files = {db_session[k].file_path : k \in DOMAIN db_session}
                  \cup {db_session[k].db_file_path : k \in DOMAIN db_session}

\* C9: no step of an ask changes the registry, whatever the outcome of the
\* request: the registered ids and their entries are the same after it.
C9_AskLeavesRegistry ==
    [][\A w \in Workers :
          (pc'[w] # pc[w] /\ req'[w].op = "ask") => db_session' = db_session]_vars

C9_Witness ==
    \E w \in Workers :
        /\ Done(w, "ask") /\ resp[w].message = "TranslationServiceError"
        /\ req[w].sid \in DOMAIN db_session

\* C10: a clear_session request is answered success or session-not-found,
\* never with an unhandled fault, also when another clear_session of the
\* same id runs at the same time.
C10_ConcurrentClearSafe ==
    \A w \in Workers :
        Done(w, "clear") => resp[w].status # "fault"

\* C11: no ask executes a statement on a connection that clear_session has
\* already closed: an ask that overlaps a clear_session of its session is
\* either served on the open dataset or answered session-not-found.
C11_ReleasedUnreachable ==
    \A w \in Workers :
        (Done(w, "ask") /\ req[w].executed # <<>>) => req[w].seen.open

\* the reply decodes as JSON but is not an object with a string sql_query
\* and an explanation
Misshapen(content) ==
    /\ content # NoReply
    /\ ~Undecodable(content)
    /\ \/ content.payload.k # "object"
       \/ ~content.payload.has_sql
       \/ content.payload.sql.t # "str"
       \/ ~content.payload.has_expl

\* C12: when the reply decodes as JSON but is not an object with string
\* sql_query and explanation, the response is a success, the offending field
\* is its sentinel, and a sentinel sql_query is not executed.
C12_MisshapenReplyIsSoft ==
    \A w \in Workers :
        (Done(w, "ask") /\ Misshapen(req[w].reply))
        => LET pl == req[w].reply.payload
               bad_sql == pl.k # "object" \/ ~pl.has_sql \/ pl.sql.t # "str"
               bad_expl == pl.k # "object" \/ ~pl.has_expl
           IN  /\ resp[w].status = "success"
               /\ bad_sql => /\ resp[w].sql_query = PyStr(SENTINEL_SQL)
                             /\ req[w].executed = <<>>
               /\ bad_expl => resp[w].explanation = SENTINEL_EXPLANATION

\* C13: a statement the engine accepts returns, every time it is executed on
\* a session, the headers and rows it yields on the dataset the session was
\* created with, whatever other asks were served in between.
C13_ExecutionDeterministic ==
    \A w \in Workers :
        (Done(w, "ask") /\ req[w].asked \notin KeywordQuestions
            /\ req[w].executed # <<>> /\ req[w].seen.open
            /\ Engine(TRUE, req[w].seen.db, req[w].executed[1]).ok)
        => LET first == Engine(TRUE, ingested[req[w].con], req[w].executed[1])
               again == Engine(TRUE, req[w].seen.db, req[w].executed[1])
           IN  /\ first.ok
               /\ again.headers = first.headers
               /\ again.rows = first.rows

\* C14: an ask with a missing or unknown session id is answered
\* session-not-found whatever its question and flag, without reading the
\* schema, calling the translator or executing a statement; and no ask calls
\* the language-model service more than once.
C14_LookupFirstSingleCall ==
    \A w \in Workers :
        /\ req[w].llm_calls <= 1
        /\ (Done(w, "ask") /\ (req[w].sid = NoId \/ ~req[w].known))
           => /\ resp[w].code = 404
              /\ resp[w].status = "error"
              /\ req[w].llm_calls = 0
              /\ req[w].prompt = NoPrompt
              /\ req[w].reply = NoReply
              /\ req[w].executed = <<>>

C14_Witness ==
    \E w, v \in Workers :
        /\ Done(w, "ask") /\ ~req[w].known /\ req[w].sid # NoId
        /\ req[w].asked = Q_SCHEMA /\ req[w].execute_sql
        /\ resp[w].code = 404
        /\ req[v].llm_calls = 1

\* C15: the question sent to the translator is the question as the client
\* typed it, with its casing.
C15_PromptKeepsCasing ==
    \A w \in Workers :
        (Done(w, "ask") /\ req[w].llm_calls > 0)
        => req[w].prompt.question = req[w].asked

\* the next statement of a handler that has started
Step(v) ==
    \/ AskSchema(v) \/ AskInvoke(v) \/ AskServiceError(v) \/ AskReply(v)
    \/ ClearRead(v) \/ ClearClose(v) \/ ClearFileExists(v)
    \/ ClearRemoveFile(v) \/ ClearDbFileExists(v) \/ ClearRemoveDbFile(v)
    \/ ClearDel(v)

\* C16: while one ask waits in its translator call, nothing of the other
\* thread is blocked: it can take an upload, an ask or a clear_session, every
\* statement of a handler it has started can run, and it can hand back its
\* response.
C16_TranslatorCallBlocksNobody ==
    \A w \in Workers : \A v \in Workers \ {w} :
        pc[w] = "ask_llm"
        => /\ pc[v] = "done" => ENABLED Return(v)
           /\ pc[v] \notin {"idle", "done"} => ENABLED Step(v)
           /\ (pc[v] = "idle" /\ served < MaxRequests)
              => /\ ENABLED Upload(v)
                 /\ ENABLED AskStart(v)
                 /\ ENABLED ClearStart(v)

C16_Witness ==
    \E w \in Workers : \E v \in Workers \ {w} :
        /\ pc[w] = "ask_llm"
        /\ Done(v, "clear") /\ req[v].sid = req[w].sid
        /\ resp[v].code = 200

\* the reply is a JSON object whose sql_query is a non-empty string other
\* than the sentinel
Translated(content) ==
    /\ content # NoReply
    /\ ~Undecodable(content)
    /\ content.payload.k = "object"
    /\ content.payload.has_sql
    /\ content.payload.sql.t = "str"
    /\ content.payload.sql.s \notin {<<>>, SENTINEL_SQL}

\* C17: with the execute flag set and a translated statement, the statement
\* is executed and exactly one of results and execution_error is non-null,
\* also when the statement contains the word Error.
C17_TranslatedIsExecuted ==
    \A w \in Workers :
        (Done(w, "ask") /\ req[w].execute_sql /\ Translated(req[w].reply))
        => /\ req[w].executed = <<req[w].reply.payload.sql.s>>
           /\ resp[w].status = "success"
           /\ (resp[w].results = PyNone) # (resp[w].execution_error = PyNone)

\* the registry entry and the resources of session k are what they were
Untouched(k) ==
    /\ k \in DOMAIN db_session'
    /\ db_session'[k] = db_session[k]
    /\ (db_session[k].con \in conOpen') = (db_session[k].con \in conOpen)
    /\ dbs'[db_session[k].con] = dbs[db_session[k].con]
    /\ (db_session[k].file_path \in files') = (db_session[k].file_path \in files)
    /\ (db_session[k].db_file_path \in files')
           = (db_session[k].db_file_path \in files)

\* C18: an upload leaves every session that exists untouched and adds at
\* most one session id, exactly one when it succeeds; every statement of
\* clear_session(id) leaves every other session's entry, connection, dataset
\* and files untouched.
C18_OnlyOwnSession ==
    [][\A w \in Workers :
          /\ (pc[w] = "idle" /\ pc'[w] = "done" /\ req'[w].op = "upload")
             => /\ \A k \in DOMAIN db_session : Untouched(k)
                /\ Cardinality(DOMAIN db_session' \ DOMAIN db_session) <= 1
                /\ resp'[w].code = 200
                   => DOMAIN db_session' \ DOMAIN db_session
                          = {resp'[w].session_id}
          /\ (req[w].op = "clear" /\ pc'[w] # pc[w])
             => \A k \in DOMAIN db_session \ {req[w].sid} : Untouched(k)
      ]_vars

C18_Witness ==
    \E w \in Workers :
        /\ Done(w, "clear") /\ resp[w].code = 200
        /\ req[w].sid \in cleared
        /\ DOMAIN db_session \ {req[w].sid} # {}

====
